---- MODULE Spec2Model ----
(***************************************************************************)
(* OpenGlass: the chunked photo reassembler of DeviceView.usePhotos, the   *)
(* capture trigger, the resync of new photos into the Agent, and the       *)
(* serialized Agent pipeline (addPhoto / answer / clearPhotos).            *)
(*                                                                         *)
(* SpecReassembler drives onChunk with arbitrary notifications and lets    *)
(* the rotations settle.  SpecCapture drives takePhoto.  SpecSync drives   *)
(* the photo list, the [photos] effect and the resync into the Agent.      *)
(* SpecAgent drives the Agent with arbitrary calls and collaborator        *)
(* outcomes; FairSpecAgent adds the fairness of the event loop.            *)
(***************************************************************************)
EXTENDS Integers, Sequences, FiniteSets, TLC

VARIABLES
    previousChunk,  \* usePhotos: id of the last accepted chunk, -1 when idle
    buffer,         \* usePhotos: bytes accumulated for the transfer in progress
    emitted,        \* buffers handed to rotateImage, in finalization order
    chunkLog,       \* the notifications delivered so far, each with the state it left
    rotating,       \* the finalized images whose rotateImage promise is pending
    photoStore,     \* usePhotos: the photos state, the photo list shown and fed to the Agent
    arrived,        \* number of photos ever appended to the photo list
    effectPending,  \* DeviceView: photos changed and the [photos] effect has not run yet
    isCapturing,    \* usePhotos: the isCapturing state
    capturingSeen,  \* the isCapturing value the current takePhoto callback closed over
    controlReady,   \* photoControlCharRef.current is set
    writesPending,  \* writeValue calls that have not settled
    cooldownTimers, \* setTimeout(..., 2000) timers that have not fired
    commandsSent,   \* number of 0x01 capture commands written
    captureRequests, \* number of takePhoto calls made so far
    processedPhotos, \* DeviceView: processedPhotos.current
    processed,      \* DeviceView sync: the processed counter of the closure
    syncInvalidated,       \* InvalidateSync: a run is in progress
    syncInvalidatedDouble, \* InvalidateSync: one more run is owed
    syncAwaiting,   \* the addPhoto call the current run awaits, 0 when none
    syncRuns,       \* number of runs of the wrapped function started so far
    invalidationsInRun, \* invalidate() calls made since the current run started
    lastBurst,      \* invalidate() calls that were made during the run that ended last
    photos,         \* Agent.#photos: the accumulated (photo, description) pairs
    state,          \* Agent.#state: lastDescription, answer, loading
    stateCopy,      \* Agent.#stateCopy: the snapshot published by #notify
    notifications,  \* number of #notify rounds run so far
    audioStarts,    \* number of startAudio() calls made so far
    lockHolder,     \* Agent.#lock: the call whose body holds the lock, 0 when free
    lockQueue,      \* Agent.#lock: the calls waiting for the lock, oldest first
    calls           \* every Agent call made so far, with its position and locals

rvars == <<previousChunk, buffer, emitted, chunkLog>>
pvars == <<rotating, photoStore, arrived, effectPending>>
cvars == <<isCapturing, capturingSeen, controlReady, writesPending, cooldownTimers,
           commandsSent, captureRequests>>
svars == <<processedPhotos, processed, syncInvalidated, syncInvalidatedDouble, syncAwaiting,
           syncRuns, invalidationsInRun, lastBurst>>
avars == <<photos, state, stateCopy, notifications, audioStarts, lockHolder, lockQueue, calls>>
vars == <<rvars, pvars, cvars, svars, avars>>

\* What a step of the Agent alone leaves unchanged.
outsideAgent == <<rvars, pvars, cvars, svars>>

(***************************************************************************)
(* Bounds and input sets of the reassembler.                               *)
(***************************************************************************)
MaxChunks == 5
MaxId == 2
Payloads == {<<1>>, <<2, 3>>}

\* onChunk's id parameter is number | null; null (the terminator) is encoded
\* as an integer no packet id can take.
Null == -1
\* previousChunk === -1 is the idle marker.
Idle == -1

ChunkIds == 0..MaxId

(***************************************************************************)
(* onChunk(id, data): the reassembler step.                                *)
(***************************************************************************)
\* buffer = new Uint8Array([...buffer, ...data])
\* Faulty variant: the new bytes are put in front of the buffer.
AppendDataPrepend(buf, data) == data \o buf
AppendData(buf, data) == buf \o data

\* id === 0 while idle: the chunk that opens a transfer
\* Faulty variant: any data chunk opens a transfer.
IsStartAny(id) == TRUE
IsStart(id) == id = 0

\* buffer = new Uint8Array(0) when a transfer opens
\* Faulty variant: the buffer of the previous transfer is kept.
FreshBufferStale == buffer
FreshBuffer == <<>>

OnChunk(id, data) ==
    IF previousChunk = Idle
    THEN IF id = Null
         THEN UNCHANGED <<previousChunk, buffer, emitted>>
         ELSE IF IsStart(id)
              THEN /\ previousChunk' = 0
                   /\ buffer' = AppendData(FreshBuffer, data)
                   /\ UNCHANGED emitted
              ELSE UNCHANGED <<previousChunk, buffer, emitted>>
    ELSE IF id = Null
         THEN /\ emitted' = Append(emitted, buffer)
              /\ previousChunk' = Idle
              /\ UNCHANGED buffer
         ELSE IF id # previousChunk + 1
              THEN /\ previousChunk' = Idle
                   /\ UNCHANGED <<buffer, emitted>>
              ELSE /\ previousChunk' = id
                   /\ buffer' = AppendData(buffer, data)
                   /\ UNCHANGED emitted

\* rotateImage(buffer, '270') is called for the image just finalized.
StartRotation ==
    rotating' = IF Len(emitted') > Len(emitted) THEN rotating \cup {Len(emitted')} ELSE rotating

\* One delivered notification together with the state onChunk left behind.
Logged(id, data) ==
    [id |-> id, data |-> data, previousChunk |-> previousChunk', emitted |-> emitted']

\* characteristicvaluechanged with a data packet: onChunk(packetId, packet)
DeliverChunk ==
    /\ Len(chunkLog) < MaxChunks
    /\ \E id \in ChunkIds, data \in Payloads :
          /\ OnChunk(id, data)
          /\ chunkLog' = Append(chunkLog, Logged(id, data))
    /\ StartRotation
    /\ UNCHANGED <<photoStore, arrived, effectPending>>
    /\ UNCHANGED <<cvars, svars, avars>>

\* characteristicvaluechanged with 0xff 0xff: onChunk(null, new Uint8Array())
DeliverTerminator ==
    /\ Len(chunkLog) < MaxChunks
    /\ OnChunk(Null, <<>>)
    /\ chunkLog' = Append(chunkLog, Logged(Null, <<>>))
    /\ StartRotation
    /\ UNCHANGED <<photoStore, arrived, effectPending>>
    /\ UNCHANGED <<cvars, svars, avars>>

(***************************************************************************)
(* The photo list: rotateImage(...).then(rotated => setPhotos(...)).       *)
(***************************************************************************)
\* setPhotos((p) => [...p, rotated]); the changed list schedules the [photos] effect.
\* Photo k stands for the rotated k-th finalized image.
AppendToStore(k) ==
    /\ photoStore' = Append(photoStore, k)
    /\ arrived' = arrived + 1
    /\ effectPending' = TRUE

\* The promises of rotateImage settle in an order the code does not control.
RotationMaySettle(k) == k \in rotating

RotationResolves(k) ==
    /\ RotationMaySettle(k)
    /\ rotating' = rotating \ {k}
    /\ AppendToStore(k)
    /\ UNCHANGED <<rvars, cvars, svars, avars>>

(***************************************************************************)
(* takePhoto(): the capture trigger and its cooldown.                      *)
(***************************************************************************)
MaxRequests == 4

\* photoControlCharRef.current = photoControlCharacteristic
ControlEstablished ==
    /\ ~controlReady
    /\ controlReady' = TRUE
    /\ UNCHANGED <<isCapturing, capturingSeen, writesPending, cooldownTimers, commandsSent,
                   captureRequests>>
    /\ UNCHANGED <<rvars, pvars, svars, avars>>

\* A re-render: useCallback([isCapturing, ...]) builds takePhoto over the current state.
Render ==
    /\ capturingSeen # isCapturing
    /\ capturingSeen' = isCapturing
    /\ UNCHANGED <<isCapturing, controlReady, writesPending, cooldownTimers, commandsSent,
                   captureRequests>>
    /\ UNCHANGED <<rvars, pvars, svars, avars>>

\* if (photoControlCharRef.current && !isCapturing), with isCapturing as the callback sees it
CaptureAccepted == controlReady /\ ~capturingSeen

\* takePhoto(): setIsCapturing(true) and writeValue([0x01]), or the else branch.
TakePhoto ==
    /\ captureRequests < MaxRequests
    /\ captureRequests' = captureRequests + 1
    /\ IF CaptureAccepted
       THEN /\ isCapturing' = TRUE
            /\ commandsSent' = commandsSent + 1
            /\ writesPending' = writesPending + 1
       ELSE UNCHANGED <<isCapturing, commandsSent, writesPending>>
    /\ UNCHANGED <<capturingSeen, controlReady, cooldownTimers>>
    /\ UNCHANGED <<rvars, pvars, svars, avars>>

\* writeValue resolved: setTimeout(() => setIsCapturing(false), 2000)
WriteResolves ==
    /\ writesPending > 0
    /\ writesPending' = writesPending - 1
    /\ cooldownTimers' = cooldownTimers + 1
    /\ UNCHANGED <<isCapturing, capturingSeen, controlReady, commandsSent, captureRequests>>
    /\ UNCHANGED <<rvars, pvars, svars, avars>>

\* writeValue rejected: the catch runs setIsCapturing(false)
WriteRejects ==
    /\ writesPending > 0
    /\ writesPending' = writesPending - 1
    /\ isCapturing' = FALSE
    /\ UNCHANGED <<capturingSeen, controlReady, cooldownTimers, commandsSent, captureRequests>>
    /\ UNCHANGED <<rvars, pvars, svars, avars>>

\* The 2000 ms timer fires: setIsCapturing(false)
CooldownElapses ==
    /\ cooldownTimers > 0
    /\ cooldownTimers' = cooldownTimers - 1
    /\ isCapturing' = FALSE
    /\ UNCHANGED <<capturingSeen, controlReady, writesPending, commandsSent, captureRequests>>
    /\ UNCHANGED <<rvars, pvars, svars, avars>>

(***************************************************************************)
(* Bounds and input sets of the Agent.                                     *)
(***************************************************************************)
MaxCalls == 3
MaxPhotos == 3
Descriptions == {"", "a cat", "a dog"}
Questions == {"what animal?"}
Answers == {"It is a cat."}

\* An optional string (string | undefined | null): <<>> when absent, <<s>> when present.
Undefined == <<>>
Some(s) == <<s>>

\* JavaScript truthiness of an optional string: absent and "" are falsy.
Truthy(o) == o # Undefined /\ o[1] # ""

CallIds == DOMAIN calls

\* Photos are distinct Uint8Array objects; they are numbered in the order
\* in which they are handed to addPhoto.
RECURSIVE PhotosGiven(_)
PhotosGiven(k) == IF k = 0 THEN 0 ELSE PhotosGiven(k - 1) + Len(calls[k].photos)

FreshPhotos(n) == [j \in 1..n |-> PhotosGiven(Len(calls)) + j]

NewCall(kind, pc, ps, q) ==
    [kind |-> kind, pc |-> pc, photos |-> ps, processed |-> 0,
     lastDescription |-> Undefined, question |-> q, context |-> Undefined,
     outcome |-> "none", result |-> ""]

(***************************************************************************)
(* AsyncLock (utils/lock): one unit of work at a time, the others waiting  *)
(* in arrival order.                                                       *)
(***************************************************************************)
LockEnqueue(t) == lockQueue' = Append(lockQueue, t)

LockGrantedTo(t) == lockHolder = 0 /\ lockQueue # <<>> /\ Head(lockQueue) = t

LockTake(t) ==
    /\ lockHolder' = t
    /\ lockQueue' = SelectSeq(lockQueue, LAMBDA u : u # t)

LockRelease == lockHolder' = 0

(***************************************************************************)
(* #notify: publish a copy of #state and run the listeners.                *)
(***************************************************************************)
\* Faulty variant: the published copy is not refreshed.
SnapshotStale(s) == stateCopy
Snapshot(s) == s

Notify(s) ==
    /\ stateCopy' = Snapshot(s)
    /\ notifications' = notifications + 1

(***************************************************************************)
(* clearPhotos()                                                           *)
(***************************************************************************)
\* Faulty variant: clearPhotos replaces the whole state record.
ClearedStateResetsLoading(s) ==
    [lastDescription |-> Undefined, answer |-> Undefined, loading |-> FALSE]
ClearedState(s) == [s EXCEPT !.lastDescription = Undefined, !.answer = Undefined]

AgentClearPhotos ==
    /\ Len(calls) < MaxCalls
    /\ photos' = <<>>
    /\ state' = ClearedState(state)
    /\ Notify(state')
    /\ calls' = Append(calls, NewCall("clearPhotos", "done", <<>>, ""))
    /\ UNCHANGED <<audioStarts, lockHolder, lockQueue>>

ClearPhotos == AgentClearPhotos /\ UNCHANGED outsideAgent

(***************************************************************************)
(* InvalidateSync (utils/invalidateSync) around the reconciliation         *)
(* function of DeviceView: runs never overlap, and invalidate() calls made *)
(* during a run are coalesced into one further run.                        *)
(***************************************************************************)
\* await agent.addPhoto(unprocessed): the run lasts until the call it made settles.
\* Faulty variant: the call is made but not awaited.
AwaitedCallNone(id) == 0
AwaitedCall(id) == id

\* The reconciliation function over the list pp, the calls cs and the lock queue q:
\* if (processedPhotos.current.length > processed) {
\*     unprocessed = slice(processed); processed = length; await agent.addPhoto(unprocessed) }
WrappedRun(pp, cs, q) ==
    IF Len(pp) > processed
    THEN [calls |-> Append(cs, NewCall("addPhoto", "queued",
                                       SubSeq(pp, processed + 1, Len(pp)), "")),
          lockQueue |-> Append(q, Len(cs) + 1),
          processed |-> Len(pp),
          awaiting |-> AwaitedCall(Len(cs) + 1)]
    ELSE [calls |-> cs, lockQueue |-> q, processed |-> processed, awaiting |-> 0]

\* A run starts; a run that awaits nothing is over at once.
StartRun(pp, cs, q) ==
    LET r == WrappedRun(pp, cs, q)
    IN /\ calls' = r.calls
       /\ lockQueue' = r.lockQueue
       /\ processed' = r.processed
       /\ syncAwaiting' = r.awaiting
       /\ syncInvalidated' = (r.awaiting # 0)
       /\ syncInvalidatedDouble' = FALSE
       /\ syncRuns' = syncRuns + 1
       /\ invalidationsInRun' = 0

\* What invalidate() leaves in the owed-run mark when a run is in progress.
\* Faulty variant: an invalidation made during a run is dropped.
PendingAfterInvalidateDropped == syncInvalidatedDouble
PendingAfterInvalidate == TRUE

\* invalidate(): start a run when none is in progress, else owe one more run.
Invalidate(pp) ==
    IF ~syncInvalidated
    THEN /\ StartRun(pp, calls, lockQueue)
         /\ UNCHANGED lastBurst
    ELSE /\ syncInvalidatedDouble' = PendingAfterInvalidate
         /\ invalidationsInRun' = invalidationsInRun + 1
         /\ UNCHANGED <<calls, lockQueue, processed, syncAwaiting, syncInvalidated,
                        syncRuns, lastBurst>>

\* The addPhoto call t settles, cs being the calls as its body leaves them: when a
\* run awaited it, the run ends, and the owed run, if any, starts.
AddPhotoSettled(t, cs) ==
    IF t = syncAwaiting
    THEN /\ lastBurst' = invalidationsInRun
         /\ IF syncInvalidatedDouble
            THEN StartRun(processedPhotos, cs, lockQueue)
            ELSE /\ calls' = cs
                 /\ syncInvalidated' = FALSE
                 /\ syncAwaiting' = 0
                 /\ invalidationsInRun' = 0
                 /\ UNCHANGED <<lockQueue, processed, syncInvalidatedDouble, syncRuns>>
         /\ UNCHANGED processedPhotos
    ELSE /\ calls' = cs
         /\ UNCHANGED <<lockQueue, svars>>

(***************************************************************************)
(* addPhoto(photos)                                                        *)
(***************************************************************************)
\* await this.#lock.inLock(async () => { ... }): the call waits for the lock.
CallAddPhoto ==
    /\ Len(calls) < MaxCalls
    /\ \E n \in 0..(MaxPhotos - PhotosGiven(Len(calls))) :
          calls' = Append(calls, NewCall("addPhoto", "queued", FreshPhotos(n), ""))
    /\ LockEnqueue(Len(calls) + 1)
    /\ UNCHANGED <<photos, state, stateCopy, notifications, audioStarts, lockHolder>>
    /\ UNCHANGED outsideAgent

\* The body of addPhoto runs only once inLock has granted it the lock.
\* Faulty variant: the body runs without waiting for the lock.
AddPhotoMayStartUnlocked(t) == TRUE
AddPhotoMayStart(t) == LockGrantedTo(t)

\* if (lastDescription) { this.#state.lastDescription = lastDescription; this.#notify(); }
UpdateUI(last) ==
    IF Truthy(last)
    THEN /\ state' = [state EXCEPT !.lastDescription = last]
         /\ Notify(state')
    ELSE UNCHANGED <<state, stateCopy, notifications>>

\* The body starts; with no photo to process it runs to its end at once.
StartAddPhoto(t) ==
    /\ t \in CallIds
    /\ calls[t].kind = "addPhoto"
    /\ calls[t].pc = "queued"
    /\ AddPhotoMayStart(t)
    /\ IF calls[t].photos = <<>>
       THEN /\ UpdateUI(calls[t].lastDescription)
            /\ calls' = [calls EXCEPT ![t].pc = "done"]
            /\ lockQueue' = SelectSeq(lockQueue, LAMBDA u : u # t)
            /\ UNCHANGED lockHolder
       ELSE /\ LockTake(t)
            /\ calls' = [calls EXCEPT ![t].pc = "describing"]
            /\ UNCHANGED <<state, stateCopy, notifications>>
    /\ UNCHANGED <<photos, audioStarts>>
    /\ UNCHANGED outsideAgent

\* this.#photos.push({ photo: p, description })
\* Faulty variant: unshift instead of push.
PushPhotoFront(ps, p, d) == <<[photo |-> p, description |-> d]>> \o ps
PushPhoto(ps, p, d) == Append(ps, [photo |-> p, description |-> d])

\* imageDescription(p) resolves with d: push, then the next photo or the end of the body.
DescribeReturn(t, d) ==
    /\ t \in CallIds
    /\ calls[t].pc = "describing"
    /\ LET p == calls[t].photos[calls[t].processed + 1]
           last == calls[t].processed + 1 = Len(calls[t].photos)
       IN /\ photos' = PushPhoto(photos, p, d)
          /\ IF last
             THEN /\ UpdateUI(Some(d))
                  /\ LockRelease
                  /\ AddPhotoSettled(t, [calls EXCEPT ![t].processed = @ + 1,
                                                      ![t].lastDescription = Some(d),
                                                      ![t].pc = "done"])
             ELSE /\ calls' = [calls EXCEPT ![t].processed = @ + 1,
                                            ![t].lastDescription = Some(d)]
                  /\ UNCHANGED <<state, stateCopy, notifications, lockHolder>>
                  /\ UNCHANGED <<lockQueue, svars>>
    /\ UNCHANGED audioStarts
    /\ UNCHANGED <<rvars, pvars, cvars>>

\* imageDescription(p) rejects: the body aborts and addPhoto rejects.
\* Faulty variant: the photos this invocation had already pushed are taken back.
DescribeThrowRollsBack(t) ==
    /\ t \in CallIds
    /\ calls[t].pc = "describing"
    /\ calls' = [calls EXCEPT ![t].pc = "failed", ![t].outcome = "threw"]
    /\ LockRelease
    /\ photos' = SelectSeq(photos,
                     LAMBDA e : \A j \in 1..Len(calls[t].photos) : calls[t].photos[j] # e.photo)
    /\ UNCHANGED <<state, stateCopy, notifications, audioStarts, lockQueue>>
    /\ UNCHANGED outsideAgent
DescribeThrow(t) ==
    /\ t \in CallIds
    /\ calls[t].pc = "describing"
    /\ calls' = [calls EXCEPT ![t].pc = "failed", ![t].outcome = "threw"]
    /\ LockRelease
    /\ UNCHANGED <<photos, state, stateCopy, notifications, audioStarts, lockQueue>>
    /\ UNCHANGED outsideAgent

(***************************************************************************)
(* answer(question)                                                        *)
(***************************************************************************)
\* if (this.#state.loading) return;
\* Faulty variant: the loading guard is missing.
AlreadyLoadingNever == FALSE
AlreadyLoading == state.loading

CallAnswer ==
    /\ Len(calls) < MaxCalls
    /\ \E q \in Questions :
          /\ audioStarts' = audioStarts + 1
          /\ IF AlreadyLoading
             THEN /\ calls' = Append(calls, NewCall("answer", "dropped", <<>>, q))
                  /\ UNCHANGED <<state, stateCopy, notifications, lockQueue>>
             ELSE /\ state' = [state EXCEPT !.loading = TRUE]
                  /\ Notify(state')
                  /\ calls' = Append(calls, NewCall("answer", "queued", <<>>, q))
                  /\ LockEnqueue(Len(calls) + 1)
    /\ UNCHANGED <<photos, lockHolder>>
    /\ UNCHANGED outsideAgent

\* for (let p of this.#photos) { combined += '\n\nImage #' + i + '\n\n'; combined += p.description; i++; }
RECURSIVE CombineLoop(_, _, _)
CombineLoop(ps, i, combined) ==
    IF ps = <<>>
    THEN combined
    ELSE CombineLoop(Tail(ps), i + 1,
                     combined \o "\n\nImage #" \o ToString(i) \o "\n\n" \o Head(ps).description)

\* let combined = ''; let i = 0; then the loop
\* Faulty variant: the image index starts at 1.
CombinedFromOne(ps) == CombineLoop(ps, 1, "")
Combined(ps) == CombineLoop(ps, 0, "")

\* The locked body starts: compose the context and call llamaFind(question, combined).
StartAnswer(t) ==
    /\ t \in CallIds
    /\ calls[t].kind = "answer"
    /\ calls[t].pc = "queued"
    /\ LockGrantedTo(t)
    /\ LockTake(t)
    /\ calls' = [calls EXCEPT ![t].pc = "reasoning", ![t].context = Some(Combined(photos))]
    /\ UNCHANGED <<photos, state, stateCopy, notifications, audioStarts>>
    /\ UNCHANGED outsideAgent

\* this.#state.answer = "Sorry, ..." in the catch of the locked body
Fallback == "Sorry, an error occurred while processing your request."

\* this.#state.answer = answer, or the fallback string in the catch
\* Faulty variant: the answer field is not written.
AnswerAfterKeep(outcome, result) == state.answer
AnswerAfter(outcome, result) == IF outcome = "returned" THEN Some(result) ELSE Some(Fallback)

\* finally { this.#state.loading = false; this.#notify(); }
\* Faulty variant: loading is reset only when llamaFind returned.
LoadingAfterOnlyOnSuccess(outcome) == outcome # "returned"
LoadingAfter(outcome) == FALSE

\* llamaFind settles: the answer is stored, the lock is released and the
\* finally block of answer runs.
FinishAnswer(t, outcome, result) ==
    /\ t \in CallIds
    /\ calls[t].pc = "reasoning"
    /\ state' = [state EXCEPT !.answer = AnswerAfter(outcome, result),
                              !.loading = LoadingAfter(outcome)]
    /\ Notify(state')
    /\ LockRelease
    /\ calls' = [calls EXCEPT ![t].pc = "done", ![t].outcome = outcome, ![t].result = result]
    /\ UNCHANGED <<photos, audioStarts, lockQueue>>
    /\ UNCHANGED outsideAgent

ReasonReturn(t, a) == FinishAnswer(t, "returned", a)

ReasonThrow(t) == FinishAnswer(t, "threw", "")

(***************************************************************************)
(* Initial state and specifications.                                       *)
(***************************************************************************)
InitReassembler ==
    /\ previousChunk = Idle
    /\ buffer = <<>>
    /\ emitted = <<>>
    /\ chunkLog = <<>>

InitAgent ==
    /\ photos = <<>>
    /\ state = [lastDescription |-> Undefined, answer |-> Undefined, loading |-> FALSE]
    /\ stateCopy = [lastDescription |-> Undefined, answer |-> Undefined, loading |-> FALSE]
    /\ notifications = 0
    /\ audioStarts = 0
    /\ lockHolder = 0
    /\ lockQueue = <<>>
    /\ calls = <<>>

(***************************************************************************)
(* DeviceView: the photo list, Clear Photos and the [photos] effect.       *)
(***************************************************************************)
\* A rotated photo is appended to the list (the transfers are left out here).
PhotoArrives ==
    /\ arrived < MaxPhotos
    /\ AppendToStore(arrived + 1)
    /\ UNCHANGED rotating
    /\ UNCHANGED <<rvars, cvars, svars, avars>>

\* handleClearPhotos: clearPhotos() of usePhotos, then agent.clearPhotos().
HandleClearPhotos ==
    /\ photoStore' = <<>>
    /\ effectPending' = TRUE
    /\ AgentClearPhotos
    /\ UNCHANGED <<rotating, arrived>>
    /\ UNCHANGED <<rvars, cvars, svars>>

\* useEffect(() => { processedPhotos.current = photos; sync.invalidate(); }, [photos])
PhotosEffect ==
    /\ effectPending
    /\ effectPending' = FALSE
    /\ processedPhotos' = photoStore
    /\ Invalidate(photoStore)
    /\ UNCHANGED <<rotating, photoStore, arrived>>
    /\ UNCHANGED <<photos, state, stateCopy, notifications, audioStarts, lockHolder>>
    /\ UNCHANGED <<rvars, cvars>>

InitStore ==
    /\ rotating = {}
    /\ photoStore = <<>>
    /\ arrived = 0
    /\ effectPending = TRUE

InitCapture ==
    /\ isCapturing = FALSE
    /\ capturingSeen = FALSE
    /\ controlReady = FALSE
    /\ writesPending = 0
    /\ cooldownTimers = 0
    /\ commandsSent = 0
    /\ captureRequests = 0

InitSync ==
    /\ processedPhotos = <<>>
    /\ processed = 0
    /\ syncInvalidated = FALSE
    /\ syncInvalidatedDouble = FALSE
    /\ syncAwaiting = 0
    /\ syncRuns = 0
    /\ invalidationsInRun = 0
    /\ lastBurst = 0

Init == InitReassembler /\ InitStore /\ InitCapture /\ InitSync /\ InitAgent

NextReassembler ==
    \/ DeliverChunk
    \/ DeliverTerminator
    \/ \E k \in 1..MaxChunks : RotationResolves(k)

NextCapture ==
    \/ ControlEstablished
    \/ Render
    \/ TakePhoto
    \/ WriteResolves
    \/ WriteRejects
    \/ CooldownElapses

SpecCapture == Init /\ [][NextCapture]_vars

\* Photos arrive, the user clears, the effect resyncs, and the vision
\* collaborator answers every description request.
NextSync ==
    \/ PhotoArrives
    \/ HandleClearPhotos
    \/ PhotosEffect
    \/ \E t \in CallIds : StartAddPhoto(t)
    \/ \E t \in CallIds : \E d \in Descriptions : DescribeReturn(t, d)

SpecSync == Init /\ [][NextSync]_vars

SpecReassembler == Init /\ [][NextReassembler]_vars

StartBody == \E t \in 1..MaxCalls : StartAddPhoto(t) \/ StartAnswer(t)

DescribeSettles ==
    \E t \in 1..MaxCalls : DescribeThrow(t) \/ \E d \in Descriptions : DescribeReturn(t, d)

ReasonSettles ==
    \E t \in 1..MaxCalls : ReasonThrow(t) \/ \E a \in Answers : ReasonReturn(t, a)

NextAgent ==
    \/ ClearPhotos
    \/ CallAddPhoto
    \/ CallAnswer
    \/ StartBody
    \/ DescribeSettles
    \/ ReasonSettles

SpecAgent == Init /\ [][NextAgent]_vars

\* The event loop runs every continuation that is ready, and the
\* collaborator calls settle.
FairSpecAgent ==
    /\ SpecAgent
    /\ WF_vars(StartBody)
    /\ WF_vars(DescribeSettles)
    /\ WF_vars(ReasonSettles)

\* The whole program.
Next == NextReassembler \/ NextCapture \/ NextSync \/ NextAgent

Spec == Init /\ [][Next]_vars

(***************************************************************************)
(* Reading the chunk log: position k is the state after k notifications.   *)
(***************************************************************************)
NumChunks == Len(chunkLog)
IdleAfter(k) == IF k = 0 THEN TRUE ELSE chunkLog[k].previousChunk = Idle
PreviousAfter(k) == IF k = 0 THEN Idle ELSE chunkLog[k].previousChunk
EmittedAfter(k) == IF k = 0 THEN <<>> ELSE chunkLog[k].emitted

\* Notifications i+1 .. i+n carry ids 0 .. n-1 and notification i+n+1 is the terminator.
InOrderRun(i, n) ==
    /\ i + n + 1 <= NumChunks
    /\ \A j \in 1..n : chunkLog[i + j].id = j - 1
    /\ chunkLog[i + n + 1].id = Null

\* The payloads of notifications i+1 .. i+n, concatenated in delivery order.
RECURSIVE ConcatData(_, _)
ConcatData(i, n) ==
    IF n = 0 THEN <<>> ELSE ConcatData(i, n - 1) \o chunkLog[i + n].data

\* Notification k is a data chunk that arrives mid-transfer with the wrong id.
IsViolation(k) ==
    /\ ~IdleAfter(k - 1)
    /\ chunkLog[k].id # Null
    /\ chunkLog[k].id # PreviousAfter(k - 1) + 1

\* Notification t made the reassembler emit an image.
EmitsAt(t) == Len(EmittedAfter(t)) > Len(EmittedAfter(t - 1))

(***************************************************************************)
(* C1: from an idle reassembler, chunks 0,1,...,n-1 followed by a          *)
(* terminator emit exactly one image, the concatenation of the n payloads  *)
(* in delivery order, and leave the reassembler idle.                      *)
(***************************************************************************)
C1_InOrderEmitsConcatenation ==
    \A i \in 0..NumChunks, n \in 1..NumChunks :
        (IdleAfter(i) /\ InOrderRun(i, n)) =>
            /\ \A j \in 1..n : EmittedAfter(i + j) = EmittedAfter(i)
            /\ EmittedAfter(i + n + 1) = Append(EmittedAfter(i), ConcatData(i, n))
            /\ IdleAfter(i + n + 1)

\* A second transfer of two different payloads, completed after an earlier image.
C1_Witness ==
    /\ NumChunks = 5
    /\ InOrderRun(0, 1)
    /\ InOrderRun(2, 2)
    /\ chunkLog[1].data = <<1>>
    /\ chunkLog[3].data = <<2, 3>>
    /\ chunkLog[4].data = <<1>>
    /\ emitted = << <<1>>, <<2, 3, 1>> >>
    /\ previousChunk = Idle

(***************************************************************************)
(* C2: a mid-transfer chunk with an unexpected id returns the reassembler  *)
(* to idle without emitting; nothing is emitted for the broken transfer    *)
(* nor by any notification before the next id-0 chunk; every image emitted *)
(* afterwards is made only of the payloads from an id-0 chunk that follows *)
(* the violation. In particular 0,2,0,terminator from idle emits exactly   *)
(* the payload of the second id-0 chunk.                                   *)
(***************************************************************************)
C2_GapDiscardsTransfer ==
    /\ \A k \in 1..NumChunks :
          IsViolation(k) =>
            /\ IdleAfter(k)
            /\ \A s \in 1..k :
                  (\A j \in s..(k - 1) : ~IdleAfter(j)) => EmittedAfter(s - 1) = EmittedAfter(k)
            /\ \A m \in k..NumChunks :
                  (\A j \in (k + 1)..m : chunkLog[j].id # 0) =>
                      /\ EmittedAfter(m) = EmittedAfter(k - 1)
                      /\ IdleAfter(m)
            /\ \A t \in (k + 1)..NumChunks :
                  EmitsAt(t) =>
                    \E s \in (k + 1)..(t - 1) :
                       /\ chunkLog[s].id = 0
                       /\ EmittedAfter(t) = Append(EmittedAfter(t - 1), ConcatData(s - 1, t - s))
    /\ \A i \in 0..NumChunks :
          ( /\ IdleAfter(i)
            /\ i + 4 <= NumChunks
            /\ chunkLog[i + 1].id = 0
            /\ chunkLog[i + 2].id = 2
            /\ chunkLog[i + 3].id = 0
            /\ chunkLog[i + 4].id = Null )
          => /\ EmittedAfter(i + 2) = EmittedAfter(i)
             /\ EmittedAfter(i + 4) = Append(EmittedAfter(i), chunkLog[i + 3].data)
             /\ IdleAfter(i + 4)

\* (0,a),(1,b),(0,c),(1,d),terminator: the restart at id 0 is itself the violation.
\* Here: (0,X),(2,Y),(0,Z),(1,W),terminator emits Z.W only.
C2_Witness ==
    /\ NumChunks = 5
    /\ IsViolation(2)
    /\ chunkLog[1].data = <<1>>
    /\ chunkLog[2].id = 2
    /\ chunkLog[3].id = 0
    /\ chunkLog[3].data = <<2, 3>>
    /\ chunkLog[4].id = 1
    /\ chunkLog[4].data = <<1>>
    /\ chunkLog[5].id = Null
    /\ emitted = << <<2, 3, 1>> >>

(***************************************************************************)
(* C3: while the reassembler is idle, a terminator or a chunk with a       *)
(* non-zero id changes nothing: no image is emitted and previousChunk and  *)
(* buffer keep their values.                                               *)
(***************************************************************************)
C3_IdleIgnores ==
    [][ ( /\ chunkLog' # chunkLog
          /\ previousChunk = Idle
          /\ chunkLog'[Len(chunkLog')].id # 0 )
        => UNCHANGED <<previousChunk, buffer, emitted>> ]_vars

\* A stray terminator and a late non-zero chunk, both received while idle
\* after a completed image.
C3_Witness ==
    /\ NumChunks = 4
    /\ InOrderRun(0, 1)
    /\ chunkLog[3].id = Null
    /\ chunkLog[4].id = 2
    /\ emitted = << <<2, 3>> >>
    /\ buffer = <<2, 3>>
    /\ previousChunk = Idle

(***************************************************************************)
(* Reading the call log.                                                   *)
(***************************************************************************)
IsAnswer(t) == calls[t].kind = "answer"
IsAddPhoto(t) == calls[t].kind = "addPhoto"

\* Call t is inside its locked body, suspended at a collaborator call.
InLockedBody(t) == calls[t].pc \in {"describing", "reasoning"}

\* Call t is an answer call that passed the loading guard and has not finished.
AnswerInFlight(t) == IsAnswer(t) /\ calls[t].pc \in {"queued", "reasoning"}

\* The photos handed to the first k calls, in call order and argument order.
RECURSIVE ArgsInCallOrder(_)
ArgsInCallOrder(k) == IF k = 0 THEN <<>> ELSE ArgsInCallOrder(k - 1) \o calls[k].photos

AccumulatedPhotos == [j \in 1..Len(photos) |-> photos[j].photo]

(***************************************************************************)
(* C4: at most one locked body of addPhoto or answer has started and not   *)
(* yet finished, and it is the one holding the lock.                       *)
(***************************************************************************)
C4_BodiesExclusive ==
    /\ Cardinality({t \in CallIds : InLockedBody(t)}) <= 1
    /\ \A t \in CallIds : InLockedBody(t) => lockHolder = t

\* An addPhoto body suspended between its two photos while an answer and
\* another addPhoto wait for the lock.
C4_Witness ==
    /\ Len(calls) = 3
    /\ IsAddPhoto(1) /\ calls[1].pc = "describing" /\ calls[1].processed = 1
    /\ IsAnswer(2) /\ calls[2].pc = "queued"
    /\ IsAddPhoto(3) /\ calls[3].pc = "queued" /\ calls[3].photos # <<>>
    /\ lockQueue = <<2, 3>>

(***************************************************************************)
(* C5: with only addPhoto calls whose description calls all succeed        *)
(* (no clearPhotos), the accumulated list always holds a prefix of the     *)
(* photos in call order and argument order, each once, and holds all of    *)
(* them once every addPhoto call has finished.                             *)
(***************************************************************************)
C5_PhotosInCallOrder ==
    ( /\ \A t \in CallIds : calls[t].kind # "clearPhotos"
      /\ \A t \in CallIds : calls[t].pc # "failed" )
    => /\ Len(photos) <= Len(ArgsInCallOrder(Len(calls)))
       /\ AccumulatedPhotos = SubSeq(ArgsInCallOrder(Len(calls)), 1, Len(photos))
       /\ (\A t \in CallIds : IsAddPhoto(t) => calls[t].pc = "done")
            => AccumulatedPhotos = ArgsInCallOrder(Len(calls))

\* addPhoto([p1,p2]) then addPhoto([p3]) issued before the first has finished.
C5_Witness ==
    /\ Len(calls) = 2
    /\ calls[1].photos = <<1, 2>> /\ calls[1].pc = "describing" /\ calls[1].processed = 1
    /\ calls[2].photos = <<3>> /\ calls[2].pc = "queued"
    /\ AccumulatedPhotos = <<1>>

(***************************************************************************)
(* C6: an answer call made while loading is true changes neither the       *)
(* agent state, the published copy, the accumulated list nor the lock, and *)
(* moves no call into its reasoning step.                                  *)
(***************************************************************************)
C6_AnswerWhileLoadingIsNoOp ==
    [][ ( /\ Len(calls') = Len(calls) + 1
          /\ calls'[Len(calls')].kind = "answer"
          /\ state.loading )
        => /\ UNCHANGED <<state, stateCopy, notifications, photos, lockHolder, lockQueue>>
           /\ calls'[Len(calls')].pc = "dropped"
           /\ calls'[Len(calls')].context = Undefined
           /\ \A t \in CallIds : calls'[t] = calls[t] ]_vars

\* A second question asked while the first is at the reasoning collaborator.
C6_Witness ==
    /\ Len(calls) >= 2
    /\ IsAnswer(1) /\ calls[1].pc = "reasoning"
    /\ IsAnswer(2) /\ calls[2].pc = "dropped"
    /\ state.loading
    /\ lockQueue = <<>>

(***************************************************************************)
(* C7: every answer call that passes the loading guard eventually          *)
(* finishes, and the step that finishes it leaves loading false in the     *)
(* state and in the published copy, whether llamaFind returned or threw.   *)
(***************************************************************************)
C7_AnswerEndsNotLoading ==
    /\ [][ \A t \in CallIds :
             (AnswerInFlight(t) /\ calls'[t].pc \notin {"queued", "reasoning"})
             => /\ calls'[t].pc = "done"
                /\ ~state'.loading
                /\ ~stateCopy'.loading ]_vars
    /\ \A t \in 1..MaxCalls :
          (t \in CallIds /\ AnswerInFlight(t))
          ~> (t \in CallIds /\ calls[t].pc = "done" /\ ~state.loading /\ ~stateCopy.loading)

\* An answer that waited behind an addPhoto and whose reasoning call threw.
C7_Witness ==
    /\ Len(calls) >= 2
    /\ IsAddPhoto(1) /\ calls[1].pc = "done" /\ calls[1].processed >= 1
    /\ IsAnswer(2) /\ calls[2].pc = "done" /\ calls[2].outcome = "threw"
    /\ ~state.loading
    /\ ~stateCopy.loading

(***************************************************************************)
(* C8: while an accepted answer call waits for the lock or is in its       *)
(* locked body, loading is true in the state and in the published copy.    *)
(***************************************************************************)
C8_LoadingWhileInFlight ==
    \A t \in CallIds : AnswerInFlight(t) => (state.loading /\ stateCopy.loading)

\* An answer waiting behind an addPhoto body, with a clearPhotos in between.
C8_Witness ==
    /\ Len(calls) = 3
    /\ IsAddPhoto(1) /\ calls[1].pc = "describing"
    /\ IsAnswer(2) /\ calls[2].pc = "queued"
    /\ calls[3].kind = "clearPhotos"
    /\ lockHolder = 1
    /\ state.loading

(***************************************************************************)
(* C9: the context answer passes to llamaFind is, over the accumulated     *)
(* list as it is when the locked body starts, the concatenation in list    *)
(* order of "\n\nImage #" i "\n\n" description_i with i counted from 0;    *)
(* it is "" for the empty list and "\n\nImage #0\n\na cat" for the single  *)
(* description "a cat".                                                    *)
(***************************************************************************)
Digit(d) ==
    CASE d = 0 -> "0" [] d = 1 -> "1" [] d = 2 -> "2" [] d = 3 -> "3" [] d = 4 -> "4"
      [] d = 5 -> "5" [] d = 6 -> "6" [] d = 7 -> "7" [] d = 8 -> "8" [] d = 9 -> "9"

RECURSIVE Decimal(_)
Decimal(i) == IF i < 10 THEN Digit(i) ELSE Decimal(i \div 10) \o Digit(i % 10)

RECURSIVE ContextOf(_)
ContextOf(ps) ==
    IF ps = <<>>
    THEN ""
    ELSE ContextOf(SubSeq(ps, 1, Len(ps) - 1))
           \o "\n\nImage #" \o Decimal(Len(ps) - 1) \o "\n\n" \o ps[Len(ps)].description

C9_ContextComposition ==
    [][ \A t \in CallIds :
          (calls[t].pc = "queued" /\ calls'[t].pc = "reasoning")
          => /\ calls'[t].context = Some(ContextOf(photos))
             /\ (photos = <<>>) => calls'[t].context = Some("")
             /\ (Len(photos) = 1 /\ photos[1].description = "a cat")
                  => calls'[t].context = Some("\n\nImage #0\n\na cat") ]_vars

\* Two accumulated photos, described "a cat" and then "a dog".
C9_Witness ==
    \E t \in CallIds :
       /\ calls[t].pc = "reasoning"
       /\ calls[t].context = Some("\n\nImage #0\n\na cat\n\nImage #1\n\na dog")

(***************************************************************************)
(* C10: when llamaFind settles, answer becomes its result if it returned   *)
(* and the fallback string if it threw; the answer call ends normally in   *)
(* both cases and the lock is free again. The lock is never held by a call *)
(* that has ended.                                                         *)
(***************************************************************************)
C10_ReasoningOutcome ==
    /\ [][ \A t \in CallIds :
             (calls[t].pc = "reasoning" /\ calls'[t].pc # "reasoning")
             => /\ calls'[t].pc = "done"
                /\ lockHolder' = 0
                /\ calls'[t].outcome \in {"returned", "threw"}
                /\ calls'[t].outcome = "returned" => state'.answer = Some(calls'[t].result)
                /\ calls'[t].outcome = "threw" => state'.answer = Some(Fallback) ]_vars
    /\ [](lockHolder # 0 => (lockHolder \in CallIds /\ InLockedBody(lockHolder)))

\* The reasoning call threw, and an addPhoto issued afterwards ran to its end.
C10_Witness ==
    /\ Len(calls) >= 2
    /\ IsAnswer(1) /\ calls[1].pc = "done" /\ calls[1].outcome = "threw"
    /\ IsAddPhoto(2) /\ calls[2].pc = "done" /\ calls[2].processed >= 1
    /\ state.answer = Some(Fallback)
    /\ lockHolder = 0

(***************************************************************************)
(* C11: when imageDescription rejects inside addPhoto, that step leaves    *)
(* the accumulated list and the agent state as they were, ends the         *)
(* invocation as failed and frees the lock; the failed invocation never    *)
(* moves again (no retry), so its failing photo and the photos after it    *)
(* are never appended.                                                     *)
(***************************************************************************)
\* The photos of call t that its body has not pushed.
Unpushed(t) == {calls[t].photos[j] : j \in (calls[t].processed + 1)..Len(calls[t].photos)}

C11_DescribeFailurePropagates ==
    /\ [][ \A t \in CallIds :
             (calls[t].pc = "describing" /\ calls'[t].outcome = "threw")
             => /\ calls'[t].pc = "failed"
                /\ calls'[t].processed = calls[t].processed
                /\ photos' = photos
                /\ state' = state
                /\ lockHolder' = 0 ]_vars
    /\ [][ \A t \in CallIds : calls[t].pc = "failed" => calls'[t] = calls[t] ]_vars
    /\ [](\A t \in CallIds :
             calls[t].pc = "failed"
             => \A j \in 1..Len(photos) : photos[j].photo \notin Unpushed(t))

\* The second photo of an invocation failed after the first was pushed, and
\* a later addPhoto ran to its end.
C11_Witness ==
    /\ Len(calls) >= 2
    /\ IsAddPhoto(1) /\ calls[1].pc = "failed" /\ calls[1].processed = 1
    /\ calls[1].photos = <<1, 2>>
    /\ IsAddPhoto(2) /\ calls[2].pc = "done" /\ calls[2].photos = <<3>>
    /\ AccumulatedPhotos = <<1, 3>>
    /\ lockHolder = 0

(***************************************************************************)
(* C16: every step that changes the accumulated list, lastDescription or   *)
(* answer is a step of the call that holds the lock, and every step that   *)
(* changes loading is a step of an answer call that passed the guard.      *)
(***************************************************************************)
C16_MutationsUnderLock ==
    [][ /\ ( \/ photos' # photos
             \/ state'.lastDescription # state.lastDescription
             \/ state'.answer # state.answer )
           => /\ lockHolder \in CallIds
              /\ InLockedBody(lockHolder)
              /\ calls'[lockHolder] # calls[lockHolder]
        /\ state'.loading # state.loading
           => \E t \in DOMAIN calls' :
                 /\ calls'[t].kind = "answer"
                 /\ calls'[t].pc \in {"queued", "done"}
                 /\ (t \notin CallIds \/ calls'[t] # calls[t]) ]_vars

(***************************************************************************)
(* C17: when an addPhoto invocation with at least one photo ends           *)
(* successfully, lastDescription is the description returned for its last  *)
(* photo, whatever text that is, and the state was published exactly once; *)
(* with no photo, the state is unchanged and nothing is published.         *)
(***************************************************************************)
C17_LastDescriptionPublished ==
    [][ \A t \in CallIds :
          (IsAddPhoto(t) /\ calls[t].pc \in {"queued", "describing"} /\ calls'[t].pc = "done")
          => IF calls[t].photos # <<>>
             THEN /\ state'.lastDescription = calls'[t].lastDescription
                  /\ calls'[t].lastDescription = Some(photos'[Len(photos')].description)
                  /\ stateCopy' = state'
                  /\ notifications' = notifications + 1
             ELSE UNCHANGED <<state, stateCopy, notifications>> ]_vars

(***************************************************************************)
(* C18: an answer call dropped by the loading guard does not call          *)
(* startAudio; an accepted answer call calls it exactly once, after        *)
(* loading has been set and published, and goes on to wait for the lock.   *)
(***************************************************************************)
C18_AudioOnlyWhenAccepted ==
    [][ ( /\ Len(calls') = Len(calls) + 1
          /\ calls'[Len(calls')].kind = "answer" )
        => IF state.loading
           THEN /\ calls'[Len(calls')].pc = "dropped"
                /\ audioStarts' = audioStarts
           ELSE /\ calls'[Len(calls')].pc = "queued"
                /\ audioStarts' = audioStarts + 1
                /\ state'.loading /\ stateCopy'.loading
                /\ lockQueue' = Append(lockQueue, Len(calls')) ]_vars

(***************************************************************************)
(* C20: at most one answer call is past the loading guard and not yet      *)
(* finished; the lock queue holds at most one answer call; loading is true *)
(* exactly while such a call exists, so llamaFind is called at most once   *)
(* between loading turning true and turning false.                         *)
(***************************************************************************)
C20_SingleAnswerInFlight ==
    /\ Cardinality({t \in CallIds : AnswerInFlight(t)}) <= 1
    /\ Cardinality({i \in 1..Len(lockQueue) : IsAnswer(lockQueue[i])}) <= 1
    /\ Cardinality({t \in CallIds : calls[t].pc = "reasoning"}) <= 1
    /\ state.loading <=> (\E t \in CallIds : AnswerInFlight(t))

\* Two further questions asked while the first is at the reasoning collaborator.
C20_Witness ==
    /\ Len(calls) = 3
    /\ IsAnswer(1) /\ calls[1].pc = "reasoning"
    /\ IsAnswer(2) /\ calls[2].pc = "dropped"
    /\ IsAnswer(3) /\ calls[3].pc = "dropped"
    /\ lockQueue = <<>>
    /\ state.loading

\* A capture window is open from an accepted request until its write failed
\* or its cooldown timer fired.
WindowOpen == writesPending > 0 \/ cooldownTimers > 0

\* C15: a capture command is written only when the control channel is
\* established and no capture window is open, so a request made inside a
\* window writes nothing and each window carries at most one command.
C15_OneCommandPerWindow ==
    [][commandsSent' # commandsSent => controlReady /\ ~WindowOpen]_vars

\* C15, the part the code keeps: no command is written before the control
\* channel is established.
C15_NoCommandWithoutChannel == ~controlReady => commandsSent = 0

\* C19: the photo list holds the rotated images in the order in which their
\* transfers were finalized.
C19_StoreInFinalizationOrder ==
    \A i \in 1..Len(photoStore) : \A j \in 1..Len(photoStore) :
        i < j => photoStore[i] < photoStore[j]

\* The addPhoto calls that have been made and have not settled.
OutstandingAddPhotos ==
    {t \in CallIds : IsAddPhoto(t) /\ calls[t].pc \in {"queued", "describing"}}

\* C12: the resync never overlaps itself: at most one addPhoto call issued by
\* it is outstanding, and it is the one the run in progress awaits.
C12_ResyncNeverOverlaps ==
    /\ Cardinality(OutstandingAddPhotos) <= 1
    /\ OutstandingAddPhotos # {} => syncInvalidated /\ OutstandingAddPhotos = {syncAwaiting}

\* A second run is in progress, started because invalidate() was called
\* during the run before it.
C12_Witness == syncRuns >= 2 /\ lastBurst >= 1 /\ OutstandingAddPhotos # {}

\* The run in progress ends in this step.
RunEnds == syncAwaiting # 0 /\ calls'[syncAwaiting].pc = "done"

\* C13: an invalidate() made during a run starts no run by itself, and when
\* the run ends, k >= 1 invalidations made during it start exactly one
\* further run in that same step, and none start none.
C13_OneExtraRunPerBurst ==
    [][/\ (syncAwaiting # 0 /\ invalidationsInRun' > invalidationsInRun)
            => syncRuns' = syncRuns
       /\ RunEnds => syncRuns' = syncRuns + (IF invalidationsInRun >= 1 THEN 1 ELSE 0)]_vars

\* A run ended after two or more invalidations and the one owed run is in progress.
C13_Witness == lastBurst >= 2 /\ syncAwaiting # 0 /\ invalidationsInRun = 0

\* The photos passed to addPhoto so far, in the order they were passed.
Fed == ArgsInCallOrder(Len(calls))

\* Nothing is left to do: the effect has run and no run is in progress.
Quiescent == ~effectPending /\ ~syncInvalidated

\* C14: photos are fed to addPhoto at most once and in arrival order, and once
\* the resync has come to rest every photo in the photo list has been fed.
C14_EveryStoredPhotoFedOnce ==
    /\ \A i \in 1..Len(Fed) : \A j \in 1..Len(Fed) : i < j => Fed[i] < Fed[j]
    /\ Quiescent => \A i \in 1..Len(photoStore) :
                        \E j \in 1..Len(Fed) : Fed[j] = photoStore[i]

=============================================================================
